---- MODULE Spec2Model ----
(***************************************************************************)
(* Model of the azureml-examples excerpt: the fine-tuning notebook         *)
(* (text_generation_with_model_as_a_platform.ipynb), the "Working with     *)
(* Data" notebook (src/unnamed/part_000) and the two CI workflows.         *)
(*                                                                         *)
(* A run executes ONE program (variable program).  A notebook is executed  *)
(* cell by cell in file order, either by "Run All"/papermill (mode         *)
(* "RunAll": the first cell that raises ends the run) or by a user who     *)
(* executes the cells in order and goes on after a failed cell (mode       *)
(* "Interactive": names the failed cell did not bind stay unbound, and a   *)
(* later read of them raises NameError).  Every SDK call is an input of    *)
(* the run: it returns or it raises (a boolean drawn with \E).             *)
(***************************************************************************)
EXTENDS Integers, Sequences, FiniteSets, TLC

\* ---------------------------------------------------------------- bounds
\* The longest model_name tried in the naming cells.
MaxNameLen == 2

\* Status queries and sleeps of the poll loop are counted up to MaxPolls
\* (the counters saturate; the loop itself is never cut).
MaxPolls == 3

\* A user who executes a notebook by hand gives up at the MaxErrors-th cell
\* that raises.
MaxErrors == 3

\* How often the user executes the titanic cell in the rerun program.
MaxRuns == 3

\* ------------------------------------------------------------- constants
\* The statuses the poll loop and the failure check treat as final.
TerminalStatuses == {"Failed", "Completed", "Canceled"}

FailureStatuses == {"Failed", "Canceled"}

\* What jobs.get(...).status can return: the three final statuses and some
\* statuses of a job that is still on its way.
PlatformStatuses == {"NotStarted", "Running", "CancelRequested"} \cup {"Failed", "Completed", "Canceled"}

NoJob == "NoJob"

Unbound == "UNBOUND"

Asset(n, v) == [name |-> n, version |-> v]

NoAsset == Asset("", "")

dataset_version == "1"

train_dataset_name == "text_generation_train_small"

validation_dataset_name == "text_generation_validation_small"

\* Mutant: the create path registers another version than the get path asks for.
CreatedVersionTwo == "2"

\* The version literal of the Data(...) objects the create paths build.
CreatedVersion == "1"

\* Mutant: the wait cell moved behind the deployment cells.
FTCellsPollLast == << "install", "auth", "pick_model", "sku_ft", "train_data", "train_id", "val_data", "val_id", "build_job", "submit", "check", "reg_output", "models_get", "show_model", "endpoint", "sku_inf", "deploy", "wait", "score" >>

\* The code cells of the fine-tuning notebook, in file order.
FTCells == << "install", "auth", "pick_model", "sku_ft", "train_data", "train_id", "val_data", "val_id", "build_job", "submit", "wait", "check", "reg_output", "models_get", "show_model", "endpoint", "sku_inf", "deploy", "score" >>

\* Positions inside the wait cell (the poll loop).
LoopPcs == {"loop_query", "loop_test", "loop_sleep"}

VARIABLES
    program,       \* which program this run executes
    mode,          \* "RunAll" | "Interactive" (notebooks)
    pc,            \* the cell (or loop position, or workflow state) to run next
    bound,         \* names bound in the notebook kernel
    status,        \* kernel variable status
    assetVar,      \* kernel variables holding data assets
    credential,    \* which credential class the auth cell kept
    client,        \* how workspace_ml_client was built
    traffic,       \* endpoint.traffic of the kernel's endpoint object
    assets,        \* workspace: registered data assets
    jobStatus,     \* workspace: status of the fine-tuning job
    registered,    \* workspace: the job's output model is registered
    endpoints,     \* workspace: online endpoints, name -> traffic map sent
    deployments,   \* workspace: deployments of the endpoint
    calls,         \* history: call site -> times called
    failed,        \* history: call sites that raised
    errors,        \* history: [cell, kind] of every error a cell raised
    printed,       \* history: messages printed
    queries,       \* history: status queries of the wait cell (saturating)
    sleeps,        \* history: sleeps of the wait cell (saturating)
    connections,   \* workspace: workspace connections (names)
    imports,       \* workspace: data imports submitted, [name, connection]
    schedules,     \* workspace: schedule name -> "enabled" | "disabled"
    schedule_name, \* kernel variable schedule_name
    runs,          \* history: executions of the titanic cell
    stepResult,    \* CI: step name -> "success" | "failure" | "skipped"
    event,         \* CI: the event the workflow was offered
    inflight,      \* workspace: begin_* operations started and not finished
    sentTraffic,   \* history: traffic maps sent with an endpoint
    lastOp,        \* history: schedule name -> last operation that went through
    userPc,        \* concurrent runs of one get-or-create cell: user -> position
    names          \* kernel variables holding the names derived from model_name and guid

vars == << program, mode, pc, bound, status, assetVar, credential, client, traffic, assets, jobStatus, registered, endpoints, deployments, calls, failed, errors, printed, queries, sleeps, connections, imports, schedules, schedule_name, runs, stepResult, event, inflight, sentTraffic, lastOp, userPc, names >>

\* What no cell of the fine-tuning notebook touches.
ftFrame == << program, mode, connections, imports, schedules, schedule_name, runs, stepResult, event, lastOp, userPc, names >>

kernelVars == << bound, status, assetVar, credential, client, traffic >>

workspaceVars == << assets, jobStatus, registered, endpoints, deployments >>

pollVars == << queries, sleeps >>

\* ---------------------------------------------------------------- helpers
Modes == {"RunAll", "Interactive"}

Min(a, b) == IF a < b THEN a ELSE b

Index(seq, c) == CHOOSE i \in 1..Len(seq) : seq[i] = c

\* The cell after c in file order.
NextCell(seq, c) == IF Index(seq, c) = Len(seq) THEN "done" ELSE seq[Index(seq, c) + 1]

\* Mutant: a cell that raised is executed again.
AfterErrorRetry(seq, c) == c

\* Where the run goes when cell c raised: Run All stops, a user goes on.
AfterError(seq, c) ==
    IF mode = "RunAll" \/ Cardinality(errors) + 1 >= MaxErrors THEN "halted" ELSE NextCell(seq, c)

Called(site) == IF site \in DOMAIN calls THEN calls[site] ELSE 0

\* One more call at site (history only).
Call(cs, site) == IF site \in DOMAIN cs THEN [cs EXCEPT ![site] = Min(@ + 1, MaxPolls + 1)] ELSE cs @@ (site :> 1)

Err(c, kind) == [cell |-> c, kind |-> kind]

\* A cell of the fine-tuning notebook ends: normally (ok) or by raising kind.
FTEnd(c, ok, kind, newBound, newCalls, newFailed, msgs) ==
    /\ pc' = IF ok THEN NextCell(FTCells, c) ELSE AfterError(FTCells, c)
    /\ bound' = bound \cup newBound
    /\ calls' = newCalls
    /\ failed' = failed \cup newFailed
    /\ errors' = IF ok THEN errors ELSE errors \cup {Err(c, kind)}
    /\ printed' = printed \cup msgs

\* ------------------------------------------------- fine-tuning notebook
\* %pip install ... (no SDK call).
Install ==
    /\ program = "finetune" /\ pc = "install"
    /\ FTEnd("install", TRUE, "", {}, calls, {}, {})
    /\ UNCHANGED << ftFrame, inflight, sentTraffic, status, assetVar, credential, client, traffic >>
    /\ UNCHANGED << workspaceVars, pollVars >>

\* Mutant: the except branch does not replace the first choice.
FallbackNone(ok, first, second) == first

\* try: x = first / except: x = second
Fallback(ok, first, second) == IF ok THEN first ELSE second

\* The credential and workspace-client fallbacks, the registry client and
\* the workspace lookup.
Auth(tokOk, cfgOk, wsOk) ==
    /\ program = "finetune" /\ pc = "auth"
    /\ credential' = Fallback(tokOk, "DefaultAzureCredential", "InteractiveBrowserCredential")
    /\ client' = Fallback(cfgOk, "from_config", "explicit")
    /\ FTEnd("auth", wsOk, "SdkError",
             {"credential", "workspace_ml_client", "registry_ml_client"} \cup (IF wsOk THEN {"workspace"} ELSE {}),
             Call(Call(Call(calls, "get_token@86"), "from_config@91"), "workspaces.get@105"),
             (IF tokOk THEN {} ELSE {"get_token@86"}) \cup (IF cfgOk THEN {} ELSE {"from_config@91"}) \cup (IF wsOk THEN {} ELSE {"workspaces.get@105"}),
             {})
    /\ UNCHANGED << ftFrame, inflight, sentTraffic, status, assetVar, traffic >>
    /\ UNCHANGED << workspaceVars, pollVars >>

\* model_name = ...; model_to_finetune = registry_ml_client.models.get(...)
PickModel(ok) ==
    /\ program = "finetune" /\ pc = "pick_model"
    /\ IF "registry_ml_client" \notin bound
       THEN FTEnd("pick_model", FALSE, "NameError", {"model_name"}, calls, {}, {})
       ELSE FTEnd("pick_model", ok, "SdkError",
                  {"model_name"} \cup (IF ok THEN {"model_to_finetune"} ELSE {}),
                  Call(calls, "models.get@127"),
                  IF ok THEN {} ELSE {"models.get@127"},
                  IF ok THEN {"Using model name"} ELSE {})
    /\ UNCHANGED << ftFrame, inflight, sentTraffic, status, assetVar, credential, client, traffic >>
    /\ UNCHANGED << workspaceVars, pollVars >>

\* A cell that only displays an attribute of a kernel variable.
Show(c, name) ==
    /\ program = "finetune" /\ pc = c
    /\ FTEnd(c, name \in bound, "NameError", {}, calls, {}, {})
    /\ UNCHANGED << ftFrame, inflight, sentTraffic, status, assetVar, credential, client, traffic >>
    /\ UNCHANGED << workspaceVars, pollVars >>

SkuFt == Show("sku_ft", "model_to_finetune")

TrainId == Show("train_id", "train_data_asset")

ValId == Show("val_id", "validation_data_asset")

ShowModel == Show("show_model", "registered_model")

SkuInf == Show("sku_inf", "model_to_finetune")

\* data.get(name, version=version): the asset when it exists and the call
\* went through; it raises when the asset is absent and when the call
\* fails for another reason (getOk = FALSE).
DataGetReturns(n, v, getOk) == getOk /\ Asset(n, v) \in assets

\* try: var = data.get(n, version=dataset_version) / except: var =
\* data.create_or_update(Data(name=n, version="1")).
GetOrCreate(c, var, n, getSite, createSite, getOk, createOk) ==
    /\ program = "finetune" /\ pc = c
    /\ IF "workspace_ml_client" \notin bound
       THEN \* the NameError is raised inside try and caught; the except
            \* branch reads the name again and the NameError leaves the cell
            /\ FTEnd(c, FALSE, "NameError", {}, calls, {}, {"creating dataset"})
            /\ UNCHANGED << assetVar, assets >>
       ELSE IF DataGetReturns(n, dataset_version, getOk)
       THEN /\ FTEnd(c, TRUE, "", {var}, Call(calls, getSite), {}, {"already exists"})
            /\ assetVar' = [assetVar EXCEPT ![var] = Asset(n, dataset_version)]
            /\ UNCHANGED assets
       ELSE IF createOk
       THEN /\ FTEnd(c, TRUE, "", {var}, Call(Call(calls, getSite), createSite), {getSite}, {"creating dataset"})
            /\ assets' = assets \cup {Asset(n, CreatedVersion)}
            /\ assetVar' = [assetVar EXCEPT ![var] = Asset(n, CreatedVersion)]
       ELSE /\ FTEnd(c, FALSE, "SdkError", {}, Call(Call(calls, getSite), createSite), {getSite, createSite}, {"creating dataset"})
            /\ UNCHANGED << assetVar, assets >>
    /\ UNCHANGED << ftFrame, inflight, sentTraffic, status, credential, client, traffic >>
    /\ UNCHANGED << jobStatus, registered, endpoints, deployments, pollVars >>

TrainData(getOk, createOk) ==
    GetOrCreate("train_data", "train_data_asset", train_dataset_name, "data.get@191", "data.create_or_update@204", getOk, createOk)

ValData(getOk, createOk) ==
    GetOrCreate("val_data", "validation_data_asset", validation_dataset_name, "data.get@229", "data.create_or_update@242", getOk, createOk)

\* guid, short_guid and the derived names, then create_finetuning_job(...),
\* which only builds the job object.  Statements before a NameError have
\* taken effect.
BuildJob ==
    /\ program = "finetune" /\ pc = "build_job"
    /\ IF "model_name" \notin bound
       THEN FTEnd("build_job", FALSE, "NameError", {"short_guid"}, calls, {}, {})
       ELSE IF {"train_data_asset", "validation_data_asset", "model_to_finetune"} \subseteq bound
       THEN FTEnd("build_job", TRUE, "", {"short_guid", "display_name", "name", "output_model_name_prefix", "finetuning_job"}, calls, {}, {})
       ELSE FTEnd("build_job", FALSE, "NameError", {"short_guid", "display_name", "name", "output_model_name_prefix"}, calls, {}, {})
    /\ UNCHANGED << ftFrame, inflight, sentTraffic, status, assetVar, credential, client, traffic >>
    /\ UNCHANGED << workspaceVars, pollVars >>

\* created_job = jobs.create_or_update(finetuning_job); jobs.get(created_job.name)
Submit(ok, getOk) ==
    /\ program = "finetune" /\ pc = "submit"
    /\ IF ~({"workspace_ml_client", "finetuning_job"} \subseteq bound)
       THEN /\ FTEnd("submit", FALSE, "NameError", {}, calls, {}, {})
            /\ UNCHANGED jobStatus
       ELSE IF ~ok
       THEN /\ FTEnd("submit", FALSE, "SdkError", {}, Call(calls, "jobs.create_or_update@331"), {"jobs.create_or_update@331"}, {})
            /\ UNCHANGED jobStatus
       ELSE /\ FTEnd("submit", getOk, "SdkError", {"created_job"},
                     Call(Call(calls, "jobs.create_or_update@331"), "jobs.get@332"),
                     IF getOk THEN {} ELSE {"jobs.get@332"}, {})
            /\ jobStatus' = "NotStarted"
    /\ UNCHANGED << ftFrame, inflight, sentTraffic, status, assetVar, credential, client, traffic >>
    /\ UNCHANGED << assets, registered, endpoints, deployments, pollVars >>

\* One status query: jobs.get(created_job.name).status at site.
Bump(n) == Min(n + 1, MaxPolls)

\* Mutant: a loop that tests the status it already has before it queries
\* (while status not in [...]).
LoopEntryAtTest == "loop_test"

\* Where while True: starts: the first statement of the loop body is the
\* status query.
LoopEntry == "loop_query"

\* status = jobs.get(created_job.name).status, the query before the loop;
\* import time.
Wait(ok) ==
    /\ program = "finetune" /\ pc = "wait"
    /\ IF ~({"workspace_ml_client", "created_job"} \subseteq bound)
       THEN /\ FTEnd("wait", FALSE, "NameError", {}, calls, {}, {})
            /\ UNCHANGED << status, queries >>
       ELSE IF ok
       THEN /\ pc' = LoopEntry
            /\ bound' = bound \cup {"status"}
            /\ status' = jobStatus
            /\ calls' = Call(calls, "jobs.get@348")
            /\ queries' = Bump(queries)
            /\ UNCHANGED << failed, errors, printed >>
       ELSE /\ FTEnd("wait", FALSE, "SdkError", {}, Call(calls, "jobs.get@348"), {"jobs.get@348"}, {})
            /\ queries' = Bump(queries)
            /\ UNCHANGED status
    /\ UNCHANGED << ftFrame, inflight, sentTraffic, assetVar, credential, client, traffic, sleeps >>
    /\ UNCHANGED workspaceVars

\* while True: status = jobs.get(created_job.name).status; print(...)
LoopQuery(ok) ==
    /\ program = "finetune" /\ pc = "loop_query"
    /\ queries' = Bump(queries)
    /\ IF ok
       THEN /\ pc' = "loop_test"
            /\ status' = jobStatus
            /\ calls' = Call(calls, "jobs.get@353")
            /\ printed' = printed \cup {"Current job status"}
            /\ UNCHANGED << bound, failed, errors >>
       ELSE /\ FTEnd("wait", FALSE, "SdkError", {}, Call(calls, "jobs.get@353"), {"jobs.get@353"}, {})
            /\ UNCHANGED status
    /\ UNCHANGED << ftFrame, inflight, sentTraffic, assetVar, credential, client, traffic, sleeps >>
    /\ UNCHANGED workspaceVars

\* Mutants of the exit test: one that leaves on every status but "Running",
\* one that knows only "Completed", one that gives up after MaxPolls queries.
LoopExitsUnlessRunning(s) == s # "Running"

LoopExitsOnCompleted(s) == s = "Completed"

LoopExitsOrTimesOut(s) == s \in {"Failed", "Completed", "Canceled"} \/ queries >= MaxPolls

\* The loop's exit test: status in ["Failed", "Completed", "Canceled"].
LoopExits(s) == s \in TerminalStatuses

\* if status in [...]: print(...); break / else: print(...)
LoopTest ==
    /\ program = "finetune" /\ pc = "loop_test"
    /\ IF LoopExits(status)
       THEN /\ pc' = NextCell(FTCells, "wait")
            /\ printed' = printed \cup {"Job has finished"}
       ELSE /\ pc' = "loop_sleep"
            /\ printed' = printed \cup {"Job is still running"}
    /\ UNCHANGED << ftFrame, inflight, sentTraffic, kernelVars, workspaceVars, calls, failed, errors, pollVars >>

\* time.sleep(30), then the next iteration.
LoopSleep ==
    /\ program = "finetune" /\ pc = "loop_sleep"
    /\ pc' = "loop_query"
    /\ sleeps' = Bump(sleeps)
    /\ UNCHANGED << ftFrame, inflight, sentTraffic, kernelVars, workspaceVars, calls, failed, errors, printed, queries >>

\* Whether the break statement of a cell stands inside a loop of that cell:
\* the break of the wait cell is in its while loop, the break of the
\* failure-check cell is in an if statement at the top level of the cell.
BreakInLoop == [wait |-> TRUE, check |-> FALSE]

\* Python compiles a cell before it runs any of it; a break outside a loop
\* is a SyntaxError of the whole cell.
Compiles(c) == BreakInLoop[c]

\* if status in ["Failed", "Canceled"]: print(...); break
Check ==
    /\ program = "finetune" /\ pc = "check"
    /\ IF ~Compiles("check")
       THEN FTEnd("check", FALSE, "SyntaxError", {}, calls, {}, {})
       ELSE IF "status" \notin bound
       THEN FTEnd("check", FALSE, "NameError", {}, calls, {}, {})
       ELSE FTEnd("check", TRUE, "", {}, calls, {}, IF status \in FailureStatuses THEN {"Job did not finish successfully"} ELSE {})
    /\ UNCHANGED << ftFrame, inflight, sentTraffic, status, assetVar, credential, client, traffic >>
    /\ UNCHANGED << workspaceVars, pollVars >>

\* registered_model_output = created_job.outputs["registered_model"]
RegOutput ==
    /\ program = "finetune" /\ pc = "reg_output"
    /\ FTEnd("reg_output", "created_job" \in bound, "NameError",
             IF "created_job" \in bound THEN {"registered_model_output"} ELSE {}, calls, {}, {})
    /\ UNCHANGED << ftFrame, inflight, sentTraffic, status, assetVar, credential, client, traffic >>
    /\ UNCHANGED << workspaceVars, pollVars >>

\* registered_model = models.get(name=registered_model_output.name, version="1"):
\* the model is there once the platform registered the job's output.
ModelsGet(ok) ==
    /\ program = "finetune" /\ pc = "models_get"
    /\ IF ~({"workspace_ml_client", "registered_model_output"} \subseteq bound)
       THEN FTEnd("models_get", FALSE, "NameError", {}, calls, {}, {})
       ELSE FTEnd("models_get", ok /\ registered, "SdkError",
                  IF ok /\ registered THEN {"registered_model"} ELSE {},
                  Call(calls, "models.get@398"),
                  IF ok /\ registered THEN {} ELSE {"models.get@398"}, {})
    /\ UNCHANGED << ftFrame, inflight, sentTraffic, status, assetVar, credential, client, traffic >>
    /\ UNCHANGED << workspaceVars, pollVars >>

NoTraffic == {}

\* The workspace's endpoints after begin_create_or_update(endpoint) went
\* through: created, or replaced by name.
PutEndpoint(t) == {[name |-> "online_endpoint_name", traffic |-> t]}

\* Mutant: the traffic goes to a deployment the notebook never creates.
DemoTrafficBlue == {<< "blue", 100 >>}

\* endpoint.traffic = {"demo": 100}, as a set of << deployment, share >>.
DemoTraffic == {<< "demo", 100 >>}

\* Mutant: the poller of the endpoint creation is dropped, not awaited.
AwaitedButEndpoint == {
    "online_deployments.begin_create_or_update@497", "begin_create_or_update@499",
    "schedules.begin_create_or_update@553", "schedules.begin_create_or_update@593",
    "schedules.begin_disable@618", "schedules.begin_enable@671", "schedules.begin_create_or_update@690",
    "schedules.begin_disable@711", "schedules.begin_delete@712" }

\* The begin_* calls whose poller is awaited in the same statement, with
\* .wait() or .result().
Awaited == {
    "begin_create_or_update@454", "online_deployments.begin_create_or_update@497", "begin_create_or_update@499",
    "schedules.begin_create_or_update@553", "schedules.begin_create_or_update@593",
    "schedules.begin_disable@618", "schedules.begin_enable@671", "schedules.begin_create_or_update@690",
    "schedules.begin_disable@711", "schedules.begin_delete@712" }

\* How the statement that began the operation at site ends: an awaited
\* operation has finished ("done") or failed, and the failure is raised; a
\* poller that is not awaited is dropped with the operation still running.
Outcome(site, ok) == IF site \notin Awaited THEN "pending" ELSE IF ok THEN "done" ELSE "raised"

\* The operations in flight after that statement.
Landed(site) == IF site \in Awaited THEN inflight \ {site} ELSE inflight

\* online_endpoint_name, endpoint = ManagedOnlineEndpoint(...),
\* begin_create_or_update(endpoint): the endpoint is sent, the operation
\* starts.
Endpoint ==
    /\ program = "finetune" /\ pc = "endpoint"
    /\ IF ~({"model_name", "short_guid"} \subseteq bound)
       THEN /\ FTEnd("endpoint", FALSE, "NameError", {}, calls, {}, {})
            /\ UNCHANGED << inflight, sentTraffic >>
       ELSE IF "registered_model_output" \notin bound
       THEN /\ FTEnd("endpoint", FALSE, "NameError", {"online_endpoint_name"}, calls, {}, {})
            /\ UNCHANGED << inflight, sentTraffic >>
       ELSE IF "workspace_ml_client" \notin bound
       THEN /\ FTEnd("endpoint", FALSE, "NameError", {"online_endpoint_name", "endpoint"}, calls, {}, {})
            /\ UNCHANGED << inflight, sentTraffic >>
       ELSE /\ pc' = "begin_create_or_update@454"
            /\ bound' = bound \cup {"online_endpoint_name", "endpoint"}
            /\ calls' = Call(calls, "begin_create_or_update@454")
            /\ inflight' = inflight \cup {"begin_create_or_update@454"}
            /\ sentTraffic' = sentTraffic \cup {traffic}
            /\ UNCHANGED << failed, errors, printed >>
    /\ UNCHANGED << ftFrame, status, assetVar, credential, client, traffic >>
    /\ UNCHANGED << workspaceVars, pollVars >>

\* ....wait() of the endpoint creation: the platform has created (or
\* replaced) the endpoint, or the operation failed.
EndpointWait(ok) ==
    /\ program = "finetune" /\ pc = "begin_create_or_update@454"
    /\ FTEnd("endpoint", Outcome("begin_create_or_update@454", ok) # "raised", "SdkError", {}, calls,
             IF Outcome("begin_create_or_update@454", ok) = "raised" THEN {"begin_create_or_update@454"} ELSE {}, {})
    /\ endpoints' = IF Outcome("begin_create_or_update@454", ok) = "done" THEN PutEndpoint(traffic) ELSE endpoints
    /\ inflight' = Landed("begin_create_or_update@454")
    /\ UNCHANGED << ftFrame, sentTraffic, status, assetVar, credential, client, traffic >>
    /\ UNCHANGED << assets, jobStatus, registered, deployments, pollVars >>

\* demo_deployment = ManagedOnlineDeployment(name="demo", ...);
\* online_deployments.begin_create_or_update(demo_deployment)
Deploy ==
    /\ program = "finetune" /\ pc = "deploy"
    /\ IF ~({"online_endpoint_name", "registered_model", "workspace_ml_client"} \subseteq bound)
       THEN /\ FTEnd("deploy", FALSE, "NameError", {}, calls, {}, {})
            /\ UNCHANGED inflight
       ELSE /\ pc' = "online_deployments.begin_create_or_update@497"
            /\ bound' = bound \cup {"demo_deployment"}
            /\ calls' = Call(calls, "online_deployments.begin_create_or_update@497")
            /\ inflight' = inflight \cup {"online_deployments.begin_create_or_update@497"}
            /\ UNCHANGED << failed, errors, printed >>
    /\ UNCHANGED << ftFrame, sentTraffic, status, assetVar, credential, client, traffic >>
    /\ UNCHANGED << workspaceVars, pollVars >>

\* ....wait() of the deployment creation (the platform creates a deployment
\* only on an endpoint it has); endpoint.traffic = {"demo": 100};
\* begin_create_or_update(endpoint): the endpoint is sent with that map.
DeployWait(depOk) ==
    /\ program = "finetune" /\ pc = "online_deployments.begin_create_or_update@497"
    /\ IF Outcome("online_deployments.begin_create_or_update@497", depOk /\ endpoints # {}) = "raised"
       THEN /\ FTEnd("deploy", FALSE, "SdkError", {}, calls, {"online_deployments.begin_create_or_update@497"}, {})
            /\ inflight' = Landed("online_deployments.begin_create_or_update@497")
            /\ UNCHANGED << traffic, deployments, sentTraffic >>
       ELSE /\ deployments' = IF Outcome("online_deployments.begin_create_or_update@497", depOk /\ endpoints # {}) = "done"
                              THEN deployments \cup {"demo"} ELSE deployments
            /\ IF "endpoint" \notin bound
               THEN /\ FTEnd("deploy", FALSE, "NameError", {}, calls, {}, {})
                    /\ inflight' = Landed("online_deployments.begin_create_or_update@497")
                    /\ UNCHANGED << traffic, sentTraffic >>
               ELSE /\ pc' = "begin_create_or_update@499"
                    /\ traffic' = DemoTraffic
                    /\ calls' = Call(calls, "begin_create_or_update@499")
                    /\ inflight' = Landed("online_deployments.begin_create_or_update@497") \cup {"begin_create_or_update@499"}
                    /\ sentTraffic' = sentTraffic \cup {DemoTraffic}
                    /\ UNCHANGED << bound, failed, errors, printed >>
    /\ UNCHANGED << ftFrame, status, assetVar, credential, client >>
    /\ UNCHANGED << assets, jobStatus, registered, endpoints, pollVars >>

\* ....result() of the traffic update: the platform has replaced the
\* endpoint, or the operation failed.
DeployResult(epOk) ==
    /\ program = "finetune" /\ pc = "begin_create_or_update@499"
    /\ FTEnd("deploy", Outcome("begin_create_or_update@499", epOk) # "raised", "SdkError", {}, calls,
             IF Outcome("begin_create_or_update@499", epOk) = "raised" THEN {"begin_create_or_update@499"} ELSE {}, {})
    /\ endpoints' = IF Outcome("begin_create_or_update@499", epOk) = "done" THEN PutEndpoint(traffic) ELSE endpoints
    /\ inflight' = Landed("begin_create_or_update@499")
    /\ UNCHANGED << ftFrame, sentTraffic, status, assetVar, credential, client, traffic >>
    /\ UNCHANGED << assets, jobStatus, registered, deployments, pollVars >>

\* url = f"{endpoint.scoring_uri}/v1/completions"; payload; headers reads
\* auth_key, a name no cell binds; requests.post(url, ...)
Score(ok) ==
    /\ program = "finetune" /\ pc = "score"
    /\ IF "endpoint" \notin bound
       THEN FTEnd("score", FALSE, "NameError", {}, calls, {}, {})
       ELSE IF "auth_key" \notin bound
       THEN FTEnd("score", FALSE, "NameError", {"url", "payload"}, calls, {}, {})
       ELSE FTEnd("score", ok, "SdkError", {"url", "payload", "headers"} \cup (IF ok THEN {"response"} ELSE {}),
                  Call(calls, "requests.post@520"), IF ok THEN {} ELSE {"requests.post@520"}, {})
    /\ UNCHANGED << ftFrame, inflight, sentTraffic, status, assetVar, credential, client, traffic >>
    /\ UNCHANGED << workspaceVars, pollVars >>

\* The platform runs the submitted job: its status moves until it is final,
\* and the output model is registered when the job completes.
PlatformStep(s) ==
    /\ program = "finetune"
    /\ jobStatus \in PlatformStatuses \ TerminalStatuses
    /\ s \in PlatformStatuses \ {jobStatus}
    /\ jobStatus' = s
    /\ registered' = (s = "Completed")
    /\ UNCHANGED << ftFrame, inflight, sentTraffic, pc, kernelVars, assets, endpoints, deployments, calls, failed, errors, printed, pollVars >>

\* One step of the fine-tuning notebook's kernel.
FTStep ==
    \/ Install
    \/ \E tokOk, cfgOk, wsOk \in BOOLEAN : Auth(tokOk, cfgOk, wsOk)
    \/ \E ok \in BOOLEAN : PickModel(ok)
    \/ SkuFt
    \/ \E getOk, createOk \in BOOLEAN : TrainData(getOk, createOk)
    \/ TrainId
    \/ \E getOk, createOk \in BOOLEAN : ValData(getOk, createOk)
    \/ ValId
    \/ BuildJob
    \/ \E ok, getOk \in BOOLEAN : Submit(ok, getOk)
    \/ \E ok \in BOOLEAN : Wait(ok)
    \/ \E ok \in BOOLEAN : LoopQuery(ok)
    \/ LoopTest
    \/ LoopSleep
    \/ Check
    \/ RegOutput
    \/ \E ok \in BOOLEAN : ModelsGet(ok)
    \/ ShowModel
    \/ Endpoint
    \/ \E ok \in BOOLEAN : EndpointWait(ok)
    \/ SkuInf
    \/ Deploy
    \/ \E depOk \in BOOLEAN : DeployWait(depOk)
    \/ \E epOk \in BOOLEAN : DeployResult(epOk)
    \/ \E ok \in BOOLEAN : Score(ok)

\* ------------------------------------------------ "Working with Data"
\* The code cells of the data notebook, in file order.
DataCells == << "d_connect", "d_job_read", "d_job_rw", "d_titanic", "d_identity_job", "d_cat", "d_mltable", "d_conn_snowflake", "d_conn_sql", "d_conn_s3", "d_import_snowflake", "d_import_sql", "d_import_s3", "d_sched_recurrence", "d_sched_cron", "d_disable", "d_get", "d_list", "d_enable", "d_update", "d_delete", "d_import_managed", "d_consume", "d_env", "d_job_mltable" >>

\* The rerun program: connect, then the titanic cell again and again.
RerunCells == << "d_connect", "d_titanic" >>

Cells == IF program = "titanic_rerun" THEN RerunCells ELSE DataCells

\* What no cell of the data notebook touches.
dFrame == << program, mode, status, credential, client, traffic, jobStatus, registered, endpoints, deployments, queries, sleeps, stepResult, event, sentTraffic, userPc, names >>

\* A cell of the data notebook ends: normally (ok) or by raising kind.
DEnd(c, ok, kind, newBound, newCalls, newFailed, msgs) ==
    /\ pc' = IF ok THEN NextCell(Cells, c) ELSE AfterError(Cells, c)
    /\ bound' = bound \cup newBound
    /\ calls' = newCalls
    /\ failed' = failed \cup newFailed
    /\ errors' = IF ok THEN errors ELSE errors \cup {Err(c, kind)}
    /\ printed' = printed \cup msgs

\* ml_client = MLClient(DefaultAzureCredential(), ...): builds the client,
\* no request is sent.
Connect ==
    /\ program \in {"data", "titanic_rerun"} /\ pc = "d_connect"
    /\ DEnd("d_connect", TRUE, "", {"subscription_id", "resource_group", "workspace", "ml_client"}, calls, {}, {})
    /\ UNCHANGED << dFrame, inflight, lastOp, assetVar, assets, connections, imports, schedules, schedule_name, runs >>

\* A cell that binds names, reads names and makes one call that changes
\* nothing this model follows: before binds, then the call, then after.
OneCall(c, reads, before, site, after, ok) ==
    /\ program = "data" /\ pc = c
    /\ IF ~(reads \subseteq bound)
       THEN DEnd(c, FALSE, "NameError", {}, calls, {}, {})
       ELSE DEnd(c, ok, "SdkError", before \cup (IF ok THEN after ELSE {}), Call(calls, site), IF ok THEN {} ELSE {site}, {})
    /\ UNCHANGED << dFrame, inflight, lastOp, assetVar, assets, connections, imports, schedules, schedule_name, runs >>

JobRead(ok) == OneCall("d_job_read", {"ml_client"}, {"inputs", "job"}, "jobs.create_or_update@88", {"returned_job"}, ok)

JobReadWrite(ok) == OneCall("d_job_rw", {"subscription_id", "resource_group", "workspace", "ml_client"}, {"inputs", "outputs", "job"}, "create_or_update@141", {"returned_job"}, ok)

MLTableLoad(ok) == OneCall("d_mltable", {}, {}, "mltable.load@264", {"tbl"}, ok)

ListSchedules(ok) == OneCall("d_list", {"ml_client"}, {}, "schedules.list@653", {"schedules"}, ok)

EnvCreate(ok) == OneCall("d_env", {"ml_client"}, {"env_docker_conda"}, "environments.create_or_update@940", {}, ok)

JobMLTable(ok) == OneCall("d_job_mltable", {"env_docker_conda", "ml_client"}, {"inputs", "job"}, "jobs.create_or_update@973", {"returned_job"}, ok)

\* A cell that makes no call.
NoCall(c, binds) ==
    /\ program = "data" /\ pc = c
    /\ DEnd(c, TRUE, "", binds, calls, {}, {})
    /\ UNCHANGED << dFrame, inflight, lastOp, assetVar, assets, connections, imports, schedules, schedule_name, runs >>

IdentityJob == NoCall("d_identity_job", {"my_job_inputs", "job"})

Cat == NoCall("d_cat", {})

Titanic == Asset("titanic", "1")

\* try: registered_data_asset = data.get(name="titanic", version="1")
\* except Exception: data.create_or_update(my_data);
\*                   registered_data_asset = data.get(name="titanic", version="1")
TitanicCell(getOk, createOk, get2Ok) ==
    /\ program \in {"data", "titanic_rerun"} /\ pc = "d_titanic"
    /\ runs' = Min(runs + 1, MaxRuns)
    /\ pc' = IF program = "titanic_rerun" /\ runs + 1 < MaxRuns THEN "d_titanic"
             ELSE IF DataGetReturns("titanic", "1", getOk) \/ (createOk /\ get2Ok) THEN NextCell(Cells, "d_titanic")
             ELSE AfterError(Cells, "d_titanic")
    /\ IF DataGetReturns("titanic", "1", getOk)
       THEN /\ bound' = bound \cup {"registered_data_asset"}
            /\ assetVar' = [assetVar EXCEPT !["registered_data_asset"] = Titanic]
            /\ calls' = Call(calls, "data.get@172")
            /\ printed' = printed \cup {"Found data asset. Will not create again"}
            /\ UNCHANGED << assets, failed, errors >>
       ELSE IF ~createOk
       THEN /\ bound' = bound \cup {"my_data"}
            /\ calls' = Call(Call(calls, "data.get@172"), "data.create_or_update@182")
            /\ failed' = failed \cup {"data.get@172", "data.create_or_update@182"}
            /\ errors' = errors \cup {Err("d_titanic", "SdkError")}
            /\ UNCHANGED << assets, assetVar, printed >>
       ELSE /\ assets' = assets \cup {Titanic}
            /\ calls' = Call(Call(Call(calls, "data.get@172"), "data.create_or_update@182"), "data.get@183")
            /\ IF get2Ok
               THEN /\ bound' = bound \cup {"my_data", "registered_data_asset"}
                    /\ assetVar' = [assetVar EXCEPT !["registered_data_asset"] = Titanic]
                    /\ failed' = failed \cup {"data.get@172"}
                    /\ printed' = printed \cup {"Created data asset"}
                    /\ UNCHANGED errors
               ELSE /\ bound' = bound \cup {"my_data"}
                    /\ failed' = failed \cup {"data.get@172", "data.get@183"}
                    /\ errors' = errors \cup {Err("d_titanic", "SdkError")}
                    /\ UNCHANGED << assetVar, printed >>
    /\ UNCHANGED << dFrame, inflight, lastOp, connections, imports, schedules, schedule_name >>

\* wps_connection = WorkspaceConnection(name=name, ...);
\* ml_client.connections.create_or_update(workspace_connection=wps_connection)
CreateConnection(c, conn, site, ok) ==
    /\ program = "data" /\ pc = c
    /\ IF "ml_client" \notin bound
       THEN /\ DEnd(c, FALSE, "NameError", {"name", "target", "wps_connection"}, calls, {}, {})
            /\ UNCHANGED connections
       ELSE /\ DEnd(c, ok, "SdkError", {"name", "target", "wps_connection"}, Call(calls, site), IF ok THEN {} ELSE {site}, {})
            /\ connections' = IF ok THEN connections \cup {conn} ELSE connections
    /\ UNCHANGED << dFrame, inflight, lastOp, assetVar, assets, imports, schedules, schedule_name, runs >>

ConnSnowflake(ok) == CreateConnection("d_conn_snowflake", "my_snowflakedb_connection", "connections.create_or_update@322", ok)

ConnSql(ok) == CreateConnection("d_conn_sql", "my_sqldb_connection", "connections.create_or_update@353", ok)

ConnS3(ok) == CreateConnection("d_conn_s3", "my_s3_connection", "connections.create_or_update@384", ok)

Import(n, conn) == [name |-> n, connection |-> conn]

\* data_import = DataImport(name=n, source=...(connection="azureml:<conn>"), ...);
\* ml_client.data.import_data(data_import=data_import)
ImportData(c, n, conn, site, ok) ==
    /\ program = "data" /\ pc = c
    /\ IF "ml_client" \notin bound
       THEN /\ DEnd(c, FALSE, "NameError", {"data_import"}, calls, {}, {})
            /\ UNCHANGED imports
       ELSE /\ DEnd(c, ok, "SdkError", {"data_import"}, Call(calls, site), IF ok THEN {} ELSE {site}, {})
            /\ imports' = IF ok THEN imports \cup {Import(n, conn)} ELSE imports
    /\ UNCHANGED << dFrame, inflight, lastOp, assetVar, assets, connections, schedules, schedule_name, runs >>

ImportSnowflake(ok) == ImportData("d_import_snowflake", "snowflake_sample", "my_snowflakedb_connection", "data.import_data@426", ok)

ImportSql(ok) == ImportData("d_import_sql", "azuresql_sample", "my_sqldb_connection", "data.import_data@459", ok)

ImportS3(ok) == ImportData("d_import_s3", "s3_sample", "my_s3_connection", "data.import_data@492", ok)

ImportManaged(ok) == ImportData("d_import_managed", "my_sf_managedasset", "my_snowflakedb_connection", "data.import_data@754", ok)

Put(f, k, v) == [x \in DOMAIN f \cup {k} |-> IF x = k THEN v ELSE f[x]]

Remove(f, k) == [x \in DOMAIN f \ {k} |-> f[x]]

Schedule(state, conn) == [state |-> state, connection |-> conn]

\* A statement of the data notebook begins the operation at site.
DBegin(site) ==
    /\ pc' = site
    /\ calls' = Call(calls, site)
    /\ inflight' = inflight \cup {site}
    /\ UNCHANGED << failed, errors, printed >>

\* source = Database(connection="azureml:my_sf_connection", ...); my_data =
\* DataImport(...); schedule_name = n; import_schedule =
\* ImportDataSchedule(name=schedule_name, ...);
\* ml_client.schedules.begin_create_or_update(import_schedule)
\* The kernel's import_schedule object is built in the same cell as
\* schedule_name and carries that name.
CreateSchedule(c, n, site) ==
    /\ program = "data" /\ pc = c
    /\ schedule_name' = n
    /\ IF "ml_client" \notin bound
       THEN /\ DEnd(c, FALSE, "NameError", {"source", "path", "my_data", "schedule_name", "import_schedule"}, calls, {}, {})
            /\ UNCHANGED inflight
       ELSE /\ DBegin(site)
            /\ bound' = bound \cup {"source", "path", "my_data", "schedule_name", "import_schedule"}
    /\ UNCHANGED << dFrame, lastOp, assetVar, assets, connections, imports, schedules, runs >>

\* ....result() of a schedule creation: the workspace holds the schedule,
\* enabled, with the import (and its connection) it was built with.
CreateScheduleResult(c, n, conn, site, ok) ==
    /\ program = "data" /\ pc = site
    /\ DEnd(c, Outcome(site, ok) # "raised", "SdkError", {}, calls, IF Outcome(site, ok) = "raised" THEN {site} ELSE {}, {})
    /\ schedules' = IF Outcome(site, ok) = "done" THEN Put(schedules, n, Schedule("enabled", conn)) ELSE schedules
    /\ lastOp' = IF Outcome(site, ok) = "done" THEN Put(lastOp, n, site) ELSE lastOp
    /\ inflight' = Landed(site)
    /\ UNCHANGED << dFrame, assetVar, assets, connections, imports, schedule_name, runs >>

SchedRecurrence == CreateSchedule("d_sched_recurrence", "my_simple_sdk_create_schedule_recurrence", "schedules.begin_create_or_update@553")

SchedRecurrenceResult(ok) == CreateScheduleResult("d_sched_recurrence", "my_simple_sdk_create_schedule_recurrence", "my_sf_connection", "schedules.begin_create_or_update@553", ok)

\* Mutant: the cron cell reuses the name of the recurrence schedule.
SchedCronSameName == CreateSchedule("d_sched_cron", "my_simple_sdk_create_schedule_recurrence", "schedules.begin_create_or_update@593")

SchedCron == CreateSchedule("d_sched_cron", "my_simple_sdk_create_schedule_cron", "schedules.begin_create_or_update@593")

SchedCronResult(ok) == CreateScheduleResult("d_sched_cron", schedule_name, "my_sf_connection", "schedules.begin_create_or_update@593", ok)

\* The platform's answer to begin_disable / begin_enable / get on name n:
\* the call goes through on a schedule the workspace has.
OnSchedule(n, ok) == ok /\ n \in DOMAIN schedules

\* Mutant: begin_disable leaves the schedule enabled.
SetStateEnabled(n, state) == Put(schedules, n, Schedule("enabled", schedules[n].connection))

SetState(n, state) == Put(schedules, n, Schedule(state, schedules[n].connection))

\* ml_client.schedules.begin_disable(name=schedule_name)
\* ml_client.schedules.begin_enable(name=schedule_name)
Toggle(c, site) ==
    /\ program = "data" /\ pc = c
    /\ IF ~({"ml_client", "schedule_name"} \subseteq bound)
       THEN /\ DEnd(c, FALSE, "NameError", {}, calls, {}, {})
            /\ UNCHANGED inflight
       ELSE /\ DBegin(site)
            /\ UNCHANGED bound
    /\ UNCHANGED << dFrame, lastOp, assetVar, assets, connections, imports, schedules, schedule_name, runs >>

\* ....result() of begin_disable / begin_enable.
ToggleResult(c, state, site, ok) ==
    /\ program = "data" /\ pc = site
    /\ DEnd(c, Outcome(site, OnSchedule(schedule_name, ok)) # "raised", "SdkError", {}, calls,
            IF Outcome(site, OnSchedule(schedule_name, ok)) = "raised" THEN {site} ELSE {}, {})
    /\ schedules' = IF Outcome(site, OnSchedule(schedule_name, ok)) = "done" THEN SetState(schedule_name, state) ELSE schedules
    /\ lastOp' = IF Outcome(site, OnSchedule(schedule_name, ok)) = "done" THEN Put(lastOp, schedule_name, site) ELSE lastOp
    /\ inflight' = Landed(site)
    /\ UNCHANGED << dFrame, assetVar, assets, connections, imports, schedule_name, runs >>

Disable == Toggle("d_disable", "schedules.begin_disable@618")

DisableResult(ok) == ToggleResult("d_disable", "disabled", "schedules.begin_disable@618", ok)

Enable == Toggle("d_enable", "schedules.begin_enable@671")

EnableResult(ok) == ToggleResult("d_enable", "enabled", "schedules.begin_enable@671", ok)

\* created_schedule = ml_client.schedules.get(name=schedule_name)
GetSchedule(ok) ==
    /\ program = "data" /\ pc = "d_get"
    /\ IF ~({"ml_client", "schedule_name"} \subseteq bound)
       THEN DEnd("d_get", FALSE, "NameError", {}, calls, {}, {})
       ELSE DEnd("d_get", OnSchedule(schedule_name, ok), "SdkError",
                 IF OnSchedule(schedule_name, ok) THEN {"created_schedule"} ELSE {},
                 Call(calls, "schedules.get@635"),
                 IF OnSchedule(schedule_name, ok) THEN {} ELSE {"schedules.get@635"}, {})
    /\ UNCHANGED << dFrame, inflight, lastOp, assetVar, assets, connections, imports, schedules, schedule_name, runs >>

\* import_schedule.trigger.expression = "10 10 * * 1";
\* ml_client.schedules.begin_create_or_update(schedule=import_schedule)
Update ==
    /\ program = "data" /\ pc = "d_update"
    /\ IF ~({"import_schedule", "ml_client"} \subseteq bound)
       THEN /\ DEnd("d_update", FALSE, "NameError", {}, calls, {}, {})
            /\ UNCHANGED inflight
       ELSE /\ DBegin("schedules.begin_create_or_update@690")
            /\ UNCHANGED bound
    /\ UNCHANGED << dFrame, lastOp, assetVar, assets, connections, imports, schedules, schedule_name, runs >>

\* import_schedule = ....result() of the update; print(import_schedule).
\* The schedule object sent
\* is the kernel's, built (enabled) in the cell that assigned schedule_name.
UpdateResult(ok) ==
    /\ program = "data" /\ pc = "schedules.begin_create_or_update@690"
    /\ DEnd("d_update", Outcome("schedules.begin_create_or_update@690", ok) # "raised", "SdkError", {}, calls,
            IF Outcome("schedules.begin_create_or_update@690", ok) = "raised" THEN {"schedules.begin_create_or_update@690"} ELSE {},
            IF Outcome("schedules.begin_create_or_update@690", ok) = "done" THEN {"import_schedule"} ELSE {})
    /\ schedules' = IF Outcome("schedules.begin_create_or_update@690", ok) = "done"
                    THEN Put(schedules, schedule_name, Schedule("enabled", "my_sf_connection")) ELSE schedules
    /\ lastOp' = IF Outcome("schedules.begin_create_or_update@690", ok) = "done"
                 THEN Put(lastOp, schedule_name, "schedules.begin_create_or_update@690") ELSE lastOp
    /\ inflight' = Landed("schedules.begin_create_or_update@690")
    /\ UNCHANGED << dFrame, assetVar, assets, connections, imports, schedule_name, runs >>

\* Only disabled schedules can be deleted: the platform's answer to
\* begin_delete on name n of the schedules sch.
Deletable(sch, n, ok) == ok /\ n \in DOMAIN sch /\ sch[n].state = "disabled"

\* ml_client.schedules.begin_disable(name=schedule_name)
Delete ==
    /\ program = "data" /\ pc = "d_delete"
    /\ IF ~({"ml_client", "schedule_name"} \subseteq bound)
       THEN /\ DEnd("d_delete", FALSE, "NameError", {}, calls, {}, {})
            /\ UNCHANGED inflight
       ELSE /\ DBegin("schedules.begin_disable@711")
            /\ UNCHANGED bound
    /\ UNCHANGED << dFrame, lastOp, assetVar, assets, connections, imports, schedules, schedule_name, runs >>

\* ....result() of that begin_disable, then
\* ml_client.schedules.begin_delete(name=schedule_name)
DeleteDisabled(disOk) ==
    /\ program = "data" /\ pc = "schedules.begin_disable@711"
    /\ IF Outcome("schedules.begin_disable@711", OnSchedule(schedule_name, disOk)) = "raised"
       THEN /\ DEnd("d_delete", FALSE, "SdkError", {}, calls, {"schedules.begin_disable@711"}, {})
            /\ inflight' = Landed("schedules.begin_disable@711")
            /\ UNCHANGED << schedules, lastOp >>
       ELSE /\ pc' = "schedules.begin_delete@712"
            /\ calls' = Call(calls, "schedules.begin_delete@712")
            /\ inflight' = Landed("schedules.begin_disable@711") \cup {"schedules.begin_delete@712"}
            /\ schedules' = IF Outcome("schedules.begin_disable@711", OnSchedule(schedule_name, disOk)) = "done"
                            THEN SetState(schedule_name, "disabled") ELSE schedules
            /\ lastOp' = IF Outcome("schedules.begin_disable@711", OnSchedule(schedule_name, disOk)) = "done"
                         THEN Put(lastOp, schedule_name, "schedules.begin_disable@711") ELSE lastOp
            /\ UNCHANGED << bound, failed, errors, printed >>
    /\ UNCHANGED << dFrame, assetVar, assets, connections, imports, schedule_name, runs >>

\* ....result() of begin_delete.
DeleteResult(delOk) ==
    /\ program = "data" /\ pc = "schedules.begin_delete@712"
    /\ DEnd("d_delete", Outcome("schedules.begin_delete@712", Deletable(schedules, schedule_name, delOk)) # "raised", "SdkError", {}, calls,
            IF Outcome("schedules.begin_delete@712", Deletable(schedules, schedule_name, delOk)) = "raised" THEN {"schedules.begin_delete@712"} ELSE {}, {})
    /\ schedules' = IF Outcome("schedules.begin_delete@712", Deletable(schedules, schedule_name, delOk)) = "done"
                    THEN Remove(schedules, schedule_name) ELSE schedules
    /\ lastOp' = IF Outcome("schedules.begin_delete@712", Deletable(schedules, schedule_name, delOk)) = "done"
                 THEN Put(lastOp, schedule_name, "schedules.begin_delete@712") ELSE lastOp
    /\ inflight' = Landed("schedules.begin_delete@712")
    /\ UNCHANGED << dFrame, assetVar, assets, connections, imports, schedule_name, runs >>

\* registered_data_asset = ml_client.data.get(name="titanic", version="1");
\* job = command(...); returned_job = ml_client.create_or_update(job)
Consume(getOk, ok) ==
    /\ program = "data" /\ pc = "d_consume"
    /\ IF "ml_client" \notin bound
       THEN /\ DEnd("d_consume", FALSE, "NameError", {}, calls, {}, {})
            /\ UNCHANGED assetVar
       ELSE IF ~DataGetReturns("titanic", "1", getOk)
       THEN /\ DEnd("d_consume", FALSE, "SdkError", {}, Call(calls, "data.get@893"), {"data.get@893"}, {})
            /\ UNCHANGED assetVar
       ELSE /\ DEnd("d_consume", ok, "SdkError",
                    {"registered_data_asset", "my_job_inputs", "job"} \cup (IF ok THEN {"returned_job"} ELSE {}),
                    Call(Call(calls, "data.get@893"), "create_or_update@908"),
                    IF ok THEN {} ELSE {"create_or_update@908"}, {})
            /\ assetVar' = [assetVar EXCEPT !["registered_data_asset"] = Titanic]
    /\ UNCHANGED << dFrame, inflight, lastOp, assets, connections, imports, schedules, schedule_name, runs >>

\* One step of the data notebook's kernel.
DataStep ==
    \/ Connect
    \/ \E ok \in BOOLEAN : JobRead(ok)
    \/ \E ok \in BOOLEAN : JobReadWrite(ok)
    \/ \E getOk, createOk, get2Ok \in BOOLEAN : TitanicCell(getOk, createOk, get2Ok)
    \/ IdentityJob
    \/ Cat
    \/ \E ok \in BOOLEAN : MLTableLoad(ok)
    \/ \E ok \in BOOLEAN : ConnSnowflake(ok)
    \/ \E ok \in BOOLEAN : ConnSql(ok)
    \/ \E ok \in BOOLEAN : ConnS3(ok)
    \/ \E ok \in BOOLEAN : ImportSnowflake(ok)
    \/ \E ok \in BOOLEAN : ImportSql(ok)
    \/ \E ok \in BOOLEAN : ImportS3(ok)
    \/ SchedRecurrence
    \/ \E ok \in BOOLEAN : SchedRecurrenceResult(ok)
    \/ SchedCron
    \/ \E ok \in BOOLEAN : SchedCronResult(ok)
    \/ Disable
    \/ \E ok \in BOOLEAN : DisableResult(ok)
    \/ \E ok \in BOOLEAN : GetSchedule(ok)
    \/ \E ok \in BOOLEAN : ListSchedules(ok)
    \/ Enable
    \/ \E ok \in BOOLEAN : EnableResult(ok)
    \/ Update
    \/ \E ok \in BOOLEAN : UpdateResult(ok)
    \/ Delete
    \/ \E disOk \in BOOLEAN : DeleteDisabled(disOk)
    \/ \E delOk \in BOOLEAN : DeleteResult(delOk)
    \/ \E ok \in BOOLEAN : ImportManaged(ok)
    \/ \E getOk, ok \in BOOLEAN : Consume(getOk, ok)
    \/ \E ok \in BOOLEAN : EnvCreate(ok)
    \/ \E ok \in BOOLEAN : JobMLTable(ok)

InitData ==
    /\ \/ program = "data" /\ mode \in Modes
       \/ program = "titanic_rerun" /\ mode = "Interactive"
    /\ pc = "d_connect"
    /\ assets \in SUBSET {Titanic}

\* ------------------------------------------------------- CI workflows
\* jobs.build.steps of the two workflow files, in file order; kind "az" is
\* a step that runs an az command, kind "run" one that runs the script or a
\* notebook.
TrainSteps == <<
    [name |-> "check out repo", kind |-> "uses"],
    [name |-> "setup python", kind |-> "uses"],
    [name |-> "pip install", kind |-> "sh"],
    [name |-> "azure login", kind |-> "login"],
    [name |-> "install azmlcli", kind |-> "az"],
    [name |-> "attach to workspace", kind |-> "az"],
    [name |-> "run workflow", kind |-> "run"] >>

UplSteps == <<
    [name |-> "check out repo", kind |-> "uses"],
    [name |-> "setup python", kind |-> "uses"],
    [name |-> "pip install", kind |-> "sh"],
    [name |-> "azure login", kind |-> "login"],
    [name |-> "install azmlcli", kind |-> "az"],
    [name |-> "attach to workspace", kind |-> "az"],
    [name |-> "run 1.train-single-node.ipynb", kind |-> "run"],
    [name |-> "run 2.log-with-tensorboard.ipynb", kind |-> "run"],
    [name |-> "run 3.log-with-mlflow.ipynb", kind |-> "run"],
    [name |-> "run 4.train-multi-node-ddp.ipynb", kind |-> "run"] >>

Steps == IF program = "ci_upl" THEN UplSteps ELSE TrainSteps

\* Paths of the repository, as sequences of path segments.
JobPy == << "workflows", "train", "fastai", "mnist-mlproject", "job.py" >>

TrainYml == << ".github", "workflows", "train-fastai-mnist-mlproject-job.yml" >>

UplYml == << ".github", "workflows", "tutorial-upl.yml" >>

UplNotebook == << "tutorials", "using-pytorch-lightning", "1.train-single-node.ipynb" >>

UplNested == << "tutorials", "using-pytorch-lightning", "src", "model.py" >>

Readme == << "README.md" >>

\* on.pull_request of the two workflow files: the branches and the path
\* patterns ("**" as last segment stands for any path below).
TrainOn == [schedule |-> TRUE, branches |-> {"main"}, paths |-> {JobPy, TrainYml}]

UplOn == [schedule |-> TRUE, branches |-> {"main"}, paths |-> {<< "tutorials", "using-pytorch-lightning", "**" >>, UplYml}]

On == IF program = "ci_upl" THEN UplOn ELSE TrainOn

NoEvent == [kind |-> "none", base |-> "", changed |-> {}]

\* The cron trigger fires on the default branch, whatever changed.
CronEvent == [kind |-> "schedule", base |-> "main", changed |-> {}]

\* A pull request (opened, reopened or given new commits) against branch
\* base that changes the files changed.
PullRequest(base, changed) == [kind |-> "pull_request", base |-> base, changed |-> changed]

\* The pull requests offered to a workflow.
PullRequests == {PullRequest(b, ch) : b \in {"main", "release"}, ch \in (SUBSET {JobPy, TrainYml, UplYml, UplNotebook, UplNested, Readme}) \ {{}}}

\* Mutant: a path pattern is compared literally.
MatchesLiterally(pat, file) == file = pat

\* GitHub's path filter: a pattern without wildcard matches that file, a
\* pattern ending in "**" matches every file below the directory.
Matches(pat, file) ==
    IF pat[Len(pat)] = "**"
    THEN Len(file) >= Len(pat) /\ \A i \in 1..(Len(pat) - 1) : file[i] = pat[i]
    ELSE file = pat

\* Whether event ev starts the workflow with triggers on: the schedule
\* always does; a pull request must pass the branch filter and the path
\* filter (at least one changed file matches a pattern).
Triggered(on, ev) ==
    \/ ev.kind = "schedule" /\ on.schedule
    \/ /\ ev.kind = "pull_request"
       /\ ev.base \in on.branches
       /\ \E f \in ev.changed : \E pat \in on.paths : Matches(pat, f)

\* GitHub offers an event to the workflow: the job starts or it does not.
Trigger(ev) ==
    /\ program \in {"ci_train", "ci_upl"} /\ pc = "event"
    /\ event' = ev
    /\ pc' = IF Triggered(On, ev) THEN Steps[1].name ELSE "not_started"
    /\ UNCHANGED << program, mode, kernelVars, workspaceVars, calls, failed, errors, printed, pollVars >>
    /\ UNCHANGED << connections, imports, schedules, schedule_name, runs, stepResult, inflight, sentTraffic, lastOp, userPc, names >>

StepNames(steps) == [i \in 1..Len(steps) |-> steps[i].name]

\* Mutant: steps run under if: always().
StepStartsAlways(results) == TRUE

\* No step of either file has an if: or a continue-on-error: key, so a step
\* runs under the default condition success(): every earlier step of the
\* job succeeded.
StepStarts(results) == \A n \in DOMAIN results : results[n] = "success"

\* The runner takes the next step of the job: it runs it (and the step
\* succeeds or fails) or skips it.
RunStep(ok) ==
    /\ program \in {"ci_train", "ci_upl"}
    /\ pc \notin {"done", "halted", "event", "not_started"}
    /\ stepResult' = stepResult @@ (pc :> IF StepStarts(stepResult) THEN (IF ok THEN "success" ELSE "failure") ELSE "skipped")
    /\ pc' = NextCell(StepNames(Steps), pc)
    /\ UNCHANGED << program, mode, kernelVars, workspaceVars, calls, failed, errors, printed, pollVars >>
    /\ UNCHANGED << connections, imports, schedules, schedule_name, runs, event, inflight, sentTraffic, lastOp, userPc, names >>

InitCI ==
    /\ program \in {"ci_train", "ci_upl"}
    /\ mode = "RunAll"
    /\ pc = "event"
    /\ assets = {}

\* ------------------------------------- two runs of one get-or-create cell
\* Two users (or two overlapping scheduled runs) execute the same
\* get-or-create cell against one workspace.  Each run is the cell's code:
\* the lookup, then, when the lookup raised, the creation.  Nothing in the
\* cell or around it orders the calls of one run against those of the other.
Users == {"u1", "u2"}

ConcurrentPrograms == {"concurrent_train", "concurrent_titanic"}

\* The asset the cell looks up and creates.
CellAsset == IF program = "concurrent_titanic" THEN Titanic ELSE Asset(train_dataset_name, dataset_version)

\* try: ... = data.get(name, version=...): the lookup of run u goes through
\* and finds the asset, or raises because the workspace has none.
UserGet(u) ==
    /\ program \in ConcurrentPrograms /\ userPc[u] = "try"
    /\ userPc' = [userPc EXCEPT ![u] = IF DataGetReturns(CellAsset.name, CellAsset.version, TRUE) THEN "found" ELSE "except"]
    /\ UNCHANGED << program, mode, pc, kernelVars, workspaceVars, calls, failed, errors, printed, pollVars >>
    /\ UNCHANGED << connections, imports, schedules, schedule_name, runs, stepResult, event, inflight, sentTraffic, lastOp, names >>

\* except: ... data.create_or_update(...) of run u (in the titanic cell
\* followed by a second lookup, which changes nothing in the workspace).
UserCreate(u, createOk) ==
    /\ program \in ConcurrentPrograms /\ userPc[u] = "except"
    /\ userPc' = [userPc EXCEPT ![u] = IF createOk THEN "created" ELSE "create_raised"]
    /\ assets' = IF createOk THEN assets \cup {CellAsset} ELSE assets
    /\ UNCHANGED << program, mode, pc, kernelVars, jobStatus, registered, endpoints, deployments, calls, failed, errors, printed, pollVars >>
    /\ UNCHANGED << connections, imports, schedules, schedule_name, runs, stepResult, event, inflight, sentTraffic, lastOp, names >>

InitConcurrent ==
    /\ program \in ConcurrentPrograms
    /\ mode = "Interactive"
    /\ pc = "concurrent"
    /\ assets \in SUBSET {CellAsset}

\* ------------------------------------------- names derived in a run
\* The statements of the fine-tuning notebook that derive names, run on
\* their own for any model_name (the notebook invites to pick another model)
\* and any UUID.  Strings are sequences of characters.
Letters == {
    "a", "b", "c", "d", "e", "f", "g", "h", "i", "j", "k", "l", "m", "n", "o", "p", "q", "r", "s", "t", "u", "v", "w", "x", "y", "z",
    "A", "B", "C", "D", "E", "F", "G", "H", "I", "J", "K", "L", "M", "N", "O", "P", "Q", "R", "S", "T", "U", "V", "W", "X", "Y", "Z" }

Digits == {"0", "1", "2", "3", "4", "5", "6", "7", "8", "9"}

\* The characters model names are tried with: a letter of each case, a
\* digit, the hyphen and characters outside [a-zA-Z0-9-].
NameChars == {"M", "a", "3", "-", ".", "_", "/", " "}

ModelNames == UNION {[1..n -> NameChars] : n \in 0..MaxNameLen}

\* The hexadecimal digits str() writes a UUID with.
HexDigits == << "0", "1", "2", "3", "4", "5", "6", "7", "8", "9", "a", "b", "c", "d", "e", "f" >>

\* The digit values UUIDs are tried with.
GuidValues == {0, 9, 10, 15}

\* uuid.uuid4(): the 32 hexadecimal digits of a random UUID; digit 13 is
\* the version (4), digit 17 carries the variant.
Uuid4(a, b) == [i \in 1..32 |-> IF i = 13 THEN 4 ELSE IF i = 17 THEN 8 ELSE IF i % 2 = 1 THEN a ELSE b]

\* Where str(guid) puts its hyphens: 8-4-4-4-12.
Hyphens == {9, 14, 19, 24}

\* str(guid): 36 characters.
Str(guid) == [i \in 1..36 |-> IF i \in Hyphens THEN "-" ELSE HexDigits[guid[i - Cardinality({h \in Hyphens : h < i})] + 1]]

\* s[:n]
Slice(s, n) == SubSeq(s, 1, Min(n, Len(s)))

\* short_guid = str(guid)[:8]
ShortGuid(guid) == Slice(Str(guid), 8)

\* "-display-name-"
DisplayNameInfix == << "-", "d", "i", "s", "p", "l", "a", "y", "-", "n", "a", "m", "e", "-" >>

\* "finetuned-model-"
FinetunedModel == << "f", "i", "n", "e", "t", "u", "n", "e", "d", "-", "m", "o", "d", "e", "l", "-" >>

\* display_name = f"{model_name}-display-name-{short_guid}"
DisplayName(mn, sg) == mn \o DisplayNameInfix \o sg

\* name = f"finetuned-model-{short_guid}"
JobName(sg) == FinetunedModel \o sg

\* output_model_name_prefix = f"finetuned-model-{short_guid}"
OutputModelNamePrefix(sg) == FinetunedModel \o sg

\* Mutant: the pattern also spares "." and "_" ([^a-zA-Z0-9._-]).
SubSparesDots(str) == [i \in 1..Len(str) |-> IF str[i] \in Letters \cup Digits \cup {"-", ".", "_"} THEN str[i] ELSE "-"]

\* re.sub(r"[^a-zA-Z0-9-]", "-", str): every character outside the class
\* becomes a hyphen.
Sub(str) == [i \in 1..Len(str) |-> IF str[i] \in Letters \cup Digits \cup {"-"} THEN str[i] ELSE "-"]

\* online_endpoint_name = f"{sanitized_model_name_for_deployment}" + short_guid
OnlineEndpointName(mn, sg) == Sub(mn) \o sg

NoNames == [model_name |-> << >>, short_guid |-> << >>, display_name |-> << >>, name |-> << >>, output_model_name_prefix |-> << >>, online_endpoint_name |-> << >>]

\* What the naming statements leave alone.
namesFrame == << program, mode, kernelVars, workspaceVars, calls, failed, errors, printed, pollVars, connections, imports, schedules, schedule_name, runs, stepResult, event, inflight, sentTraffic, lastOp, userPc >>

\* model_name = "..."
SetModelName(mn) ==
    /\ program = "names" /\ pc = "pick_model"
    /\ names' = [names EXCEPT !.model_name = mn]
    /\ pc' = "build_job"
    /\ UNCHANGED namesFrame

\* guid = uuid.uuid4(); short_guid, display_name, name,
\* output_model_name_prefix
MakeNames(a, b) ==
    /\ program = "names" /\ pc = "build_job"
    /\ names' = [names EXCEPT
                    !.short_guid = ShortGuid(Uuid4(a, b)),
                    !.display_name = DisplayName(names.model_name, ShortGuid(Uuid4(a, b))),
                    !.name = JobName(ShortGuid(Uuid4(a, b))),
                    !.output_model_name_prefix = OutputModelNamePrefix(ShortGuid(Uuid4(a, b)))]
    /\ pc' = "endpoint"
    /\ UNCHANGED namesFrame

\* sanitized_model_name_for_deployment = re.sub(...); online_endpoint_name
MakeEndpointName ==
    /\ program = "names" /\ pc = "endpoint"
    /\ names' = [names EXCEPT !.online_endpoint_name = OnlineEndpointName(names.model_name, names.short_guid)]
    /\ pc' = "done"
    /\ UNCHANGED namesFrame

InitNames ==
    /\ program = "names"
    /\ mode = "Interactive"
    /\ pc = "pick_model"
    /\ assets = {}

\* The data assets a workspace may hold before the run.
KnownAssets == {Asset(train_dataset_name, "1"), Asset(validation_dataset_name, "1")}

InitFT ==
    /\ program = "finetune"
    /\ mode \in Modes
    /\ pc = FTCells[1]
    /\ assets \in SUBSET KnownAssets

\* A fresh kernel, a workspace without job, endpoint, connection or
\* schedule, and empty histories.
InitCommon ==
    /\ bound = {}
    /\ status = Unbound
    /\ assetVar = [train_data_asset |-> NoAsset, validation_data_asset |-> NoAsset, registered_data_asset |-> NoAsset]
    /\ credential = Unbound
    /\ client = Unbound
    /\ traffic = NoTraffic
    /\ jobStatus = NoJob
    /\ registered = FALSE
    /\ endpoints = {}
    /\ deployments = {}
    /\ calls = << >>
    /\ failed = {}
    /\ errors = {}
    /\ printed = {}
    /\ queries = 0
    /\ sleeps = 0
    /\ connections = {}
    /\ imports = {}
    /\ schedules = << >>
    /\ schedule_name = Unbound
    /\ runs = 0
    /\ stepResult = << >>
    /\ event = NoEvent
    /\ inflight = {}
    /\ sentTraffic = {}
    /\ lastOp = << >>
    /\ names = NoNames
    /\ userPc = IF program \in ConcurrentPrograms THEN [u \in Users |-> "try"] ELSE << >>

Init == (InitFT \/ InitData \/ InitCI \/ InitConcurrent \/ InitNames) /\ InitCommon

Next ==
    \/ FTStep
    \/ \E s \in PlatformStatuses : PlatformStep(s)
    \/ DataStep
    \/ \E ev \in PullRequests \cup {CronEvent} : Trigger(ev)
    \/ \E ok \in BOOLEAN : RunStep(ok)
    \/ \E u \in Users : UserGet(u)
    \/ \E u \in Users, createOk \in BOOLEAN : UserCreate(u, createOk)
    \/ \E mn \in ModelNames : SetModelName(mn)
    \/ \E a, b \in GuidValues : MakeNames(a, b)
    \/ MakeEndpointName

Spec == Init /\ [][Next]_vars

\* The poll loop runs by itself once the wait cell was started: the kernel
\* takes its next step.
PollStep == (\E ok \in BOOLEAN : LoopQuery(ok)) \/ LoopTest \/ LoopSleep

FairSpec == Spec /\ WF_vars(PollStep)

\* ------------------------------------------------------------------ claims
InLoop == pc \in LoopPcs

CalledIn(cs, site) == IF site \in DOMAIN cs THEN cs[site] ELSE 0

\* C1: the poll loop is left without an error only from its exit test and
\* only with status in {"Failed", "Completed", "Canceled"}; the status was
\* assigned from the query just made; on any other status the loop sleeps
\* and queries again; once the loop has printed "Job has finished", status
\* holds a final status.
C1_PollLoopExit ==
    /\ []("Job has finished" \in printed => status \in {"Failed", "Completed", "Canceled"})
    /\ [][ /\ (pc = "loop_query" /\ pc' = "loop_test") => status' = jobStatus
           /\ (InLoop /\ ~InLoop' /\ errors' = errors) =>
                  /\ pc = "loop_test" /\ pc' = "check"
                  /\ status \in {"Failed", "Completed", "Canceled"} /\ status' = status
           /\ (pc = "loop_test" /\ status \notin {"Failed", "Completed", "Canceled"} /\ pc' # pc) => pc' = "loop_sleep"
           /\ (pc = "loop_sleep" /\ pc' # pc) => pc' = "loop_query" ]_vars

\* C1 witness: the loop slept, queried again, saw "Canceled" and exited.
C1_Witness == pc = "check" /\ sleeps >= 1 /\ status = "Canceled" /\ "Job has finished" \in printed

\* C2: if the job's status is final from some point on, the poll loop,
\* whenever it is running, eventually stops running.
C2_PollLoopTerminates ==
    <>[](jobStatus \in {"Failed", "Completed", "Canceled"}) => [](InLoop => <>(~InLoop))

\* C2 witness: the loop was still sleeping on "Running" and has exited on "Failed".
C2_Witness == ~InLoop /\ sleeps >= 2 /\ status = "Failed" /\ jobStatus = "Failed" /\ "Job has finished" \in printed

\* C3: no step of the poll loop changes the job, and on a status that is
\* not final the loop goes on to sleep and to the next query however many
\* queries it has made.
C3_NoTimeoutNoCancel ==
    [][ (InLoop /\ pc' # pc) =>
            /\ jobStatus' = jobStatus
            /\ (pc = "loop_test" /\ status \notin {"Failed", "Completed", "Canceled"}) => pc' = "loop_sleep"
            /\ pc = "loop_sleep" => pc' = "loop_query"
            /\ (pc = "loop_query" /\ errors' = errors) => pc' = "loop_test" ]_vars

\* C3 witness: the loop is about to query again after MaxPolls queries and
\* MaxPolls sleeps, the job still running.
C3_Witness == pc = "loop_query" /\ queries = MaxPolls /\ sleeps = MaxPolls /\ jobStatus = "Running" /\ "Job has finished" \notin printed

\* C4 (as claimed): in a top-to-bottom run whose poll loop exited on
\* "Failed" or "Canceled", once the failure-check cell has been executed the
\* failure message is printed, the run has halted and no later step made a call.
C4_FailureReportedAndHalts ==
    (program = "finetune" /\ mode = "RunAll" /\ "Job has finished" \in printed
        /\ status \in {"Failed", "Canceled"} /\ pc # "check") =>
            /\ "Job did not finish successfully" \in printed
            /\ pc = "halted"
            /\ "registered_model_output" \notin bound
            /\ \A site \in {"models.get@398", "begin_create_or_update@454", "online_deployments.begin_create_or_update@497", "begin_create_or_update@499", "requests.post@520"} : Called(site) = 0

\* C5 (as claimed): in a top-to-bottom run whose poll loop exited on
\* "Completed", the failure-check cell raises nothing and the run goes on.
C5_CompletedPassesCheck ==
    (program = "finetune" /\ mode = "RunAll" /\ "Job has finished" \in printed
        /\ status = "Completed" /\ pc # "check") =>
            /\ \A e \in errors : e.cell # "check"
            /\ "registered_model_output" \in bound

GetOrCreateCells == {
    [cell |-> "train_data", var |-> "train_data_asset", name |-> "text_generation_train_small", get |-> "data.get@191", create |-> "data.create_or_update@204"],
    [cell |-> "val_data", var |-> "validation_data_asset", name |-> "text_generation_validation_small", get |-> "data.get@229", create |-> "data.create_or_update@242"] }

\* C6: in the two get-or-create cells of the fine-tuning notebook
\* create_or_update has been called (once) exactly when data.get raised, and
\* when the cell has run without error its variable is bound to the asset of
\* that name and version "1", which the workspace holds.
C6_GetOrCreate ==
    \A g \in GetOrCreateCells :
        /\ Called(g.create) = (IF g.get \in failed THEN 1 ELSE 0)
        /\ (Called(g.get) > 0 /\ \A e \in errors : e.cell # g.cell) =>
               /\ g.var \in bound
               /\ assetVar[g.var] = [name |-> g.name, version |-> "1"]
               /\ assetVar[g.var] \in assets

\* C6 witness: the training cell took the create path, the validation cell
\* the get path, both without error.
C6_Witness ==
    /\ Called("data.create_or_update@204") = 1 /\ "train_data_asset" \in bound
    /\ Called("data.get@229") = 1 /\ Called("data.create_or_update@242") = 0 /\ "validation_data_asset" \in bound

\* C7 (as claimed): while the workspace holds titanic version "1", executing
\* the titanic cell makes no data.create_or_update call.
C7_NoCreateWhenPresent ==
    [][ (program = "titanic_rerun" /\ [name |-> "titanic", version |-> "1"] \in assets) =>
            CalledIn(calls', "data.create_or_update@182") = CalledIn(calls, "data.create_or_update@182") ]_vars

DeploySites == {"begin_create_or_update@454", "online_deployments.begin_create_or_update@497", "begin_create_or_update@499"}

\* C8: every call of the fine-tuning notebook comes after the authentication
\* cell; the job is submitted only with the base model, both data assets and
\* the job spec bound; the status is queried only after the submission
\* returned a job; an endpoint or deployment call is made only after the
\* wait cell made its query and the poll loop is no longer running.
C8_CallOrder ==
    program = "finetune" =>
        /\ (DOMAIN calls # {}) => (Called("get_token@86") = 1 /\ "workspace_ml_client" \in bound)
        /\ Called("jobs.create_or_update@331") > 0 =>
               {"model_to_finetune", "train_data_asset", "validation_data_asset", "finetuning_job"} \subseteq bound
        /\ (Called("jobs.get@348") > 0 \/ Called("jobs.get@353") > 0) =>
               ("created_job" \in bound /\ jobStatus # NoJob /\ Called("jobs.create_or_update@331") = 1)
        /\ (\E site \in DeploySites : Called(site) > 0) =>
               /\ Called("jobs.get@348") = 1
               /\ pc \notin LoopPcs \cup {"wait"}
               /\ ("Job has finished" \in printed \/ [cell |-> "wait", kind |-> "SdkError"] \in errors)

\* C8 witness: the endpoint got its traffic after a poll loop that slept.
C8_Witness == Called("begin_create_or_update@499") = 1 /\ sleeps >= 1 /\ endpoints # {}

\* The calls made inside a try block.
TrySites == {"get_token@86", "from_config@91", "data.get@191", "data.get@229", "data.get@172"}

\* The request a call site sends (operation and arguments): the titanic
\* asset is looked up at three places, the cron schedule is disabled at two,
\* the job is fetched at three; every other site sends a request of its own.
RequestOf(site) ==
    IF site \in {"data.get@172", "data.get@183", "data.get@893"} THEN "data.get(titanic, 1)"
    ELSE IF site \in {"schedules.begin_disable@618", "schedules.begin_disable@711"} THEN "schedules.begin_disable(schedule_name)"
    ELSE IF site \in {"jobs.get@332", "jobs.get@348", "jobs.get@353"} THEN "jobs.get(created_job.name)"
    ELSE site

Sent(r) == {site \in DOMAIN calls : RequestOf(site) = r}

\* C9 (as claimed): in a run of either notebook no request but the job
\* status query is sent more than once.
C9_NoRequestRepeated ==
    program \in {"finetune", "data"} =>
        \A site \in DOMAIN calls :
            RequestOf(site) # "jobs.get(created_job.name)" => (Sent(RequestOf(site)) = {site} /\ calls[site] <= 1)

\* C9: in a run of either notebook every call site but the status query of
\* the poll loop is called at most once; a call that raised outside a try
\* block made its cell raise; in a top-to-bottom run the first cell that
\* raises is the last one, and no call is made after it.
C9_NoRetry ==
    /\ [](program \in {"finetune", "data"} =>
            /\ \A site \in DOMAIN calls : site # "jobs.get@353" => calls[site] <= 1
            /\ (failed \ TrySites # {}) => errors # {}
            /\ mode = "RunAll" =>
                   /\ Cardinality(errors) <= 1 /\ Cardinality(failed \ TrySites) <= 1
                   /\ errors # {} => pc = "halted")
    /\ [][pc = "halted" => calls' = calls]_vars

\* C9 witness: a top-to-bottom run created the training asset at the only
\* attempt, polled more than once and ended when a status query raised.
C9_Witness ==
    /\ mode = "RunAll" /\ pc = "halted" /\ "jobs.get@353" \in failed
    /\ Called("jobs.get@353") >= 2 /\ Called("data.create_or_update@204") = 1

Ran(n) == n \in DOMAIN stepResult /\ stepResult[n] \in {"success", "failure"}

\* C10: the steps of a workflow job are taken in file order; a step has run
\* only if every earlier step succeeded; in particular every az step and
\* every run step has run only after a successful azure login.
C10_StepOrder ==
    program \in {"ci_train", "ci_upl"} =>
        /\ \E k \in 0..Len(Steps) : DOMAIN stepResult = {Steps[j].name : j \in 1..k}
        /\ \A i \in 1..Len(Steps) :
               Ran(Steps[i].name) =>
                   /\ \A j \in 1..(i - 1) : Steps[j].name \in DOMAIN stepResult /\ stepResult[Steps[j].name] = "success"
                   /\ Steps[i].kind \in {"az", "run"} =>
                          \E j \in 1..(i - 1) : Steps[j].kind = "login" /\ stepResult[Steps[j].name] = "success"

\* C10 witness: notebook 4 of tutorial-upl has run (and failed).
C10_Witness == program = "ci_upl" /\ Ran("run 4.train-multi-node-ddp.ipynb") /\ stepResult["run 4.train-multi-node-ddp.ipynb"] = "failure"

\* C11: a pull request starts a workflow exactly when it targets main and
\* changes the workflow file itself or, for the training workflow, job.py,
\* or, for tutorial-upl, a file below tutorials/using-pytorch-lightning/;
\* the cron trigger starts the workflow whatever changed.
C11_Triggers ==
    (program \in {"ci_train", "ci_upl"} /\ event.kind # "none") =>
        /\ event.kind = "schedule" => pc # "not_started"
        /\ event.kind = "pull_request" =>
               ((pc # "not_started") <=>
                    /\ event.base = "main"
                    /\ \E f \in event.changed :
                           \/ program = "ci_train" /\ f \in {<< "workflows", "train", "fastai", "mnist-mlproject", "job.py" >>, << ".github", "workflows", "train-fastai-mnist-mlproject-job.yml" >>}
                           \/ program = "ci_upl" /\ f = << ".github", "workflows", "tutorial-upl.yml" >>
                           \/ program = "ci_upl" /\ Len(f) > 2 /\ f[1] = "tutorials" /\ f[2] = "using-pytorch-lightning")

\* C11 witness: tutorial-upl was started by a pull request against main
\* that changes only a file two levels below the tutorial's directory.
C11_Witness ==
    /\ program = "ci_upl" /\ event.kind = "pull_request" /\ event.base = "main"
    /\ event.changed = {<< "tutorials", "using-pytorch-lightning", "src", "model.py" >>}
    /\ "check out repo" \in DOMAIN stepResult

\* C12: whenever the data notebook has called begin_delete on a schedule,
\* that schedule is disabled at the call: the last operation that went
\* through on its name is a begin_disable, and the begin_disable of the
\* delete cell was called and did not fail.
C12_DeleteOnlyDisabled ==
    program = "data" =>
        /\ pc = "schedules.begin_delete@712" =>
               /\ schedule_name \in DOMAIN schedules
               /\ schedules[schedule_name].state = "disabled"
               /\ lastOp[schedule_name] \in {"schedules.begin_disable@618", "schedules.begin_disable@711"}
        /\ Called("schedules.begin_delete@712") > 0 =>
               (Called("schedules.begin_disable@711") = 1 /\ "schedules.begin_disable@711" \notin failed)

\* C12 witness: the cron schedule was deleted after the update cell had
\* sent it again (enabled).
C12_Witness ==
    /\ program = "data" /\ schedule_name \notin DOMAIN schedules
    /\ schedule_name \in DOMAIN lastOp /\ lastOp[schedule_name] = "schedules.begin_delete@712"
    /\ Called("schedules.begin_create_or_update@690") = 1 /\ "schedules.begin_create_or_update@690" \notin failed

\* C13 (as claimed): in a top-to-bottom run of the data notebook every
\* import the workspace took, alone or inside a schedule, names a connection
\* that a cell of the notebook has created.
C13_ConnectionBeforeImport ==
    (program = "data" /\ mode = "RunAll") =>
        /\ \A i \in imports : i.connection \in connections
        /\ \A n \in DOMAIN schedules : schedules[n].connection \in connections

\* C14: at most one begin_* operation is in flight, and while one is, the
\* kernel stands at the statement that began it; the deployment creation is
\* begun only after the endpoint creation has finished, and the traffic
\* update only after the deployment was created.
C14_Synchronous ==
    /\ Cardinality(inflight) <= 1
    /\ inflight # {} => inflight = {pc}
    /\ Called("online_deployments.begin_create_or_update@497") > 0 =>
           /\ Called("begin_create_or_update@454") = 1
           /\ "begin_create_or_update@454" \notin inflight
           /\ (endpoints # {} \/ "begin_create_or_update@454" \in failed)
    /\ Called("begin_create_or_update@499") > 0 =>
           /\ "online_deployments.begin_create_or_update@497" \notin inflight
           /\ "demo" \in deployments

\* C14 witness: the traffic update is in flight, alone, after the endpoint
\* and the deployment were created.
C14_Witness ==
    /\ pc = "begin_create_or_update@499" /\ inflight = {"begin_create_or_update@499"}
    /\ endpoints # {} /\ "demo" \in deployments

RECURSIVE Shares(_)
\* The sum of the shares of a traffic map.
Shares(t) == IF t = {} THEN 0 ELSE LET d == CHOOSE x \in t : TRUE IN d[2] + Shares(t \ {d})

\* C15: every non-empty traffic map the fine-tuning notebook has sent is
\* {"demo": 100}: its shares sum to 100, and the deployments it names exist
\* on the endpoint, which exists.
C15_TrafficMap ==
    \A t \in sentTraffic :
        t # {} =>
            /\ t = {<< "demo", 100 >>}
            /\ Shares(t) = 100
            /\ \A d \in t : d[1] \in deployments
            /\ endpoints # {}

\* C15 witness: the endpoint was sent first without traffic, then with
\* {"demo": 100}, and the platform took the update.
C15_Witness ==
    /\ sentTraffic = {{}, {<< "demo", 100 >>}}
    /\ endpoints = {[name |-> "online_endpoint_name", traffic |-> {<< "demo", 100 >>}]}
    /\ deployments = {"demo"}

\* C16 (as claimed): while the workspace holds the asset of a get-or-create
\* cell, no step calls that cell's data.create_or_update.
C16_CreateOnlyWhenAbsent ==
    [][ /\ [name |-> "text_generation_train_small", version |-> "1"] \in assets =>
               CalledIn(calls', "data.create_or_update@204") = CalledIn(calls, "data.create_or_update@204")
        /\ [name |-> "text_generation_validation_small", version |-> "1"] \in assets =>
               CalledIn(calls', "data.create_or_update@242") = CalledIn(calls, "data.create_or_update@242")
        /\ [name |-> "titanic", version |-> "1"] \in assets =>
               CalledIn(calls', "data.create_or_update@182") = CalledIn(calls, "data.create_or_update@182") ]_vars

\* The runs that have called data.create_or_update.
Creators == {u \in DOMAIN userPc : userPc[u] \in {"created", "create_raised"}}

\* C17 (as claimed): of two interleaved runs of one get-or-create cell at
\* most one calls data.create_or_update.
C17_AtMostOneCreates == Cardinality(Creators) <= 1

\* The schedule calls of the cells after the two creation cells.
ManagementSites == {
    "schedules.begin_disable@618", "schedules.get@635", "schedules.begin_enable@671",
    "schedules.begin_create_or_update@690", "schedules.begin_disable@711", "schedules.begin_delete@712" }

\* C18: every schedule call after the two creation cells is made with
\* schedule_name = "my_simple_sdk_create_schedule_cron"; the only operation
\* that ever goes through on "my_simple_sdk_create_schedule_recurrence" is
\* its creation, and once created it is never changed; after a complete run
\* the workspace holds the recurrence schedule, enabled, and no other.
C18_ScheduleFrame ==
    /\ [](program = "data" =>
            /\ \A n \in DOMAIN lastOp : lastOp[n] \in ManagementSites => n = "my_simple_sdk_create_schedule_cron"
            /\ (pc = "done" /\ errors = {}) =>
                   /\ DOMAIN schedules = {"my_simple_sdk_create_schedule_recurrence"}
                   /\ schedules["my_simple_sdk_create_schedule_recurrence"].state = "enabled")
    /\ [][ program = "data" =>
            /\ (\E site \in ManagementSites : CalledIn(calls', site) > CalledIn(calls, site)) =>
                   schedule_name = "my_simple_sdk_create_schedule_cron"
            /\ "my_simple_sdk_create_schedule_recurrence" \in DOMAIN schedules =>
                   /\ "my_simple_sdk_create_schedule_recurrence" \in DOMAIN schedules'
                   /\ schedules'["my_simple_sdk_create_schedule_recurrence"] = schedules["my_simple_sdk_create_schedule_recurrence"] ]_vars

\* C18 witness: a complete run without error, in which the cron schedule was
\* deleted.
C18_Witness ==
    /\ program = "data" /\ pc = "done" /\ errors = {}
    /\ lastOp["my_simple_sdk_create_schedule_cron"] = "schedules.begin_delete@712"
    /\ lastOp["my_simple_sdk_create_schedule_recurrence"] = "schedules.begin_create_or_update@553"

\* C19 (as claimed): when the cells of the fine-tuning notebook are executed
\* in order and no call fails, no cell reads a name that is not bound.
C19_ReadsBound ==
    (program = "finetune" /\ \A e \in errors : e.kind # "SdkError") =>
        \A e \in errors : e.kind # "NameError"

\* C20: once the authentication cell has started, credential and
\* workspace_ml_client are bound; the credential is DefaultAzureCredential
\* unless get_token raised and InteractiveBrowserCredential then; the client
\* is the one from_config built unless from_config raised and the explicit
\* one then; the cell raises only when the workspace lookup raised.
C20_AuthFallback ==
    program = "finetune" =>
        IF Called("get_token@86") = 0
        THEN credential = Unbound /\ client = Unbound
        ELSE /\ {"credential", "workspace_ml_client"} \subseteq bound
             /\ credential = (IF "get_token@86" \in failed THEN "InteractiveBrowserCredential" ELSE "DefaultAzureCredential")
             /\ client = (IF "from_config@91" \in failed THEN "explicit" ELSE "from_config")
             /\ \A e \in errors : e.cell = "auth" => (e.kind = "SdkError" /\ "workspaces.get@105" \in failed)

\* C20 witness: both first choices raised, both fallbacks were taken and the
\* cell ended without error.
C20_Witness ==
    /\ credential = "InteractiveBrowserCredential" /\ client = "explicit"
    /\ {"get_token@86", "from_config@91"} \subseteq failed
    /\ "workspace" \in bound /\ errors = {}

\* C21: the wait cell queries the status once before the loop and once in
\* every iteration; the loop sleeps once between two queries of its own and
\* only after a status that is not final.  Counted up to MaxPolls: the
\* queries are one ahead of the sleeps when an iteration starts and two
\* ahead after its query, so a loop that has finished made two queries more
\* than sleeps, and at least two.
C21_QueriesAndSleeps ==
    /\ [](program = "finetune" =>
            /\ pc = "wait" => (queries = 0 /\ sleeps = 0)
            /\ pc = "loop_query" => queries = Min(sleeps + 1, MaxPolls)
            /\ pc \in {"loop_test", "loop_sleep"} => queries = Min(sleeps + 2, MaxPolls)
            /\ "Job has finished" \in printed => (queries = Min(sleeps + 2, MaxPolls) /\ queries >= 2))
    /\ [][ /\ sleeps' # sleeps =>
                  /\ pc = "loop_sleep" /\ pc' = "loop_query"
                  /\ status \notin {"Failed", "Completed", "Canceled"}
                  /\ sleeps' = sleeps + 1 /\ queries' = queries
           /\ queries' # queries =>
                  /\ pc \in {"wait", "loop_query"}
                  /\ queries' = queries + 1 /\ sleeps' = sleeps ]_vars

\* C21 witness: the job was final before the wait cell started; the cell
\* queried it twice and never slept.
C21_Witness ==
    /\ pc = "check" /\ "Job has finished" \in printed
    /\ queries = 2 /\ sleeps = 0 /\ "Job is still running" \notin printed

\* The last eight characters of str.
Tail8(str) == SubSeq(str, Len(str) - 7, Len(str))

\* C22: for every model_name and every UUID tried, the endpoint name is the
\* model name's length plus eight characters long, all of them letters,
\* digits or hyphens; it ends with the eight characters of short_guid, and
\* so do the job name, the display name and the output model name prefix;
\* the job name and the output model name prefix are the same string.
C22_EndpointName ==
    (program = "names" /\ pc = "done") =>
        /\ Len(names.short_guid) = 8
        /\ Len(names.online_endpoint_name) = Len(names.model_name) + 8
        /\ \A i \in 1..Len(names.online_endpoint_name) : names.online_endpoint_name[i] \in Letters \cup Digits \cup {"-"}
        /\ Tail8(names.online_endpoint_name) = names.short_guid
        /\ Tail8(names.name) = names.short_guid
        /\ Tail8(names.display_name) = names.short_guid
        /\ Tail8(names.output_model_name_prefix) = names.short_guid
        /\ names.name = names.output_model_name_prefix

\* C22 witness: model name "M." with a UUID that starts "fafafafa".
C22_Witness ==
    /\ program = "names" /\ pc = "done"
    /\ names.model_name = << "M", "." >>
    /\ names.online_endpoint_name = << "M", "-", "f", "a", "f", "a", "f", "a", "f", "a" >>
    /\ names.name = << "f", "i", "n", "e", "t", "u", "n", "e", "d", "-", "m", "o", "d", "e", "l", "-", "f", "a", "f", "a", "f", "a", "f", "a" >>

====
